---- MODULE Spec2Model ----
(***************************************************************************)
(* A model of hmbui/thermal_monitor: the DataLogger of data_logger.py      *)
(* (a rotating file set plus a JSON metadata document, both driven through *)
(* Python's process-wide root logger) as a state machine.                  *)
(*                                                                         *)
(* The state is the process (the module-level METADATA dict, the root      *)
(* logger with its level and handlers, the DataLogger instances) and the   *)
(* file system it writes (directories, the names of the data files, the    *)
(* files' contents, the metadata files).  One action models one call of a  *)
(* DataLogger method, with everything the call does.                       *)
(*                                                                         *)
(* Three specifications share the state.  Spec drives the DataLogger       *)
(* methods in every order, as an arbitrary caller may.  FaultSpec takes    *)
(* start() and end() one file operation at a time, next to a disk that can *)
(* refuse the metadata file and a process that can be killed.  MainSpec is *)
(* the program thermal_checker.py, statement by statement, run and run     *)
(* again in one directory.                                                 *)
(***************************************************************************)
EXTENDS Integers, Sequences, FiniteSets, TLC

(***************************************************************************)
(* Bounds of the exploration.                                              *)
(***************************************************************************)
MaxLoggers == 2      \* DataLogger instances constructed in the process
MaxCalls == 4        \* calls made in the process (constructors included)
MaxClock == 2        \* largest reading of time.time()
MaxDataLen == 2      \* longest data text passed to write()
MaxFileCount == 2    \* largest max_file_count passed to the constructor
FileSize == 6        \* the max_file_size passed to the constructor
ResetSize == 7       \* the explicit max_file_size passed to reset_file_handler
ResetCount == 3      \* the explicit max_file_count passed to reset_file_handler
MaxAttempts == 2     \* largest "attempts" of thermal_checker's config.json
MaxRuns == 2         \* runs of thermal_checker.py in one directory

(***************************************************************************)
(* Program constants.                                                      *)
(***************************************************************************)
\* logging's numeric levels, the values of the --log-level choices.
LevelDEBUG == 10
LevelINFO == 20
LevelWARNING == 30
LevelERROR == 40
LevelCRITICAL == 50
\* The level of the root logger before any DataLogger is constructed.
RootDefaultLevel == 30
\* The unset-timestamp sentinel of METADATA.
Unset == -1
\* len("Unknown data type ''. Make sure you provide one of the supported data
\* type values: [{'UNKNOWN': -1, 'INFO': 0, 'WARNING': 1, 'ERROR': 2,
\* 'EXCEPTION': 3}]"), the diagnostic without the offending value.
DiagBaseLen == 153
\* len("NoneType: None"), the traceback text logger.exception appends when no
\* exception is being handled.
TracebackLen == 14
\* The bounds thermal_checker.py gives its DataLogger.
MainFileSize == 4000
MainFileCount == 10

Levels == {LevelDEBUG, LevelINFO, LevelWARNING, LevelERROR, LevelCRITICAL}

\* class DataType(Enum)
DataType == [UNKNOWN |-> -1, INFO |-> 0, WARNING |-> 1, ERROR |-> 2, EXCEPTION |-> 3]
DataTypeNames == DOMAIN DataType

\* The values write() is given as data_type: the members of DataType, and two
\* values outside it, None (hashable) and a list (unhashable).
NoneValue == "None"
ListValue == "[]"
DataTypeInputs == DataTypeNames \cup {NoneValue, ListValue}

\* hash(data_type) succeeds: what dict.get needs of its key.
Hashable(data_type) == data_type # ListValue

\* len(str(data_type)), as '{0}'.format(data_type) renders it.
StrLen(data_type) ==
    IF data_type \in DataTypeNames THEN 9 + Len(data_type)   \* "DataType." + name
    ELSE IF data_type = NoneValue THEN 4 ELSE 2

\* A text, by what the program's arithmetic sees of it: its length in
\* characters, whether its last character is a newline, and how many of its
\* characters take two bytes in UTF-8 (the others take one).
Text(len, nl, wide) == [len |-> len, nl |-> nl, wide |-> wide]
\* No text: the argument of a call that is given none.
NoText == Text(0, FALSE, 0)

\* The data texts: the shortest, a lone newline, and the longest, all of
\* two-byte characters (such as the degree sign of the readings).
DataTexts == {Text(1, TRUE, 0), Text(MaxDataLen, FALSE, MaxDataLen)}

\* The directories the process is pointed at.
Dirs == {"logs", "logs2"}

\* The max_file_count values passed to the constructor: the smallest and the largest.
FileCounts == {1, MaxFileCount}
FileSizes == {FileSize}

\* None, for an optional argument of reset_file_handler.
NoArg == 0
\* The max_file_size and max_file_count reset_file_handler is called with:
\* neither given, or both.
ResetArgs == {<<NoArg, NoArg>>, <<ResetSize, ResetCount>>}

\* The largest index of a data file name: cpu_temperatures.<backupCount>.
MaxIdx == MaxFileCount
\* Files that can exist at once: every name, and a file that was unlinked while
\* each attached handler kept its stream open on it.
MaxInode == Cardinality(Dirs) * (MaxIdx + 1) + MaxLoggers
NoFile == 0

VARIABLES
    METADATA,        \* the module-level dict of data_logger.py
    level,           \* the root logger's level
    file_handlers,   \* the RotatingFileHandlers added to the root logger, in order
    console_handlers,\* the number of StreamHandlers added to the root logger
    loggers,         \* the DataLogger instances, in order of construction
    dirs,            \* the directories that exist
    names,           \* names[d][k]: the file named cpu_temperatures[.k] in d, or NoFile
    inodes,          \* the content of each file: the lines written to it
    metadata_file,   \* metadata_file[d]: the metadata file in d
    stderr,          \* the lines the console handlers wrote during the latest write()
    calls,           \* the number of calls made so far
    raised,          \* the exception the latest call raised to its caller
    last,            \* the latest call: its name and, for write(), its arguments
    pc               \* where the process is: the statement of thermal_checker.py
                     \* it is at, or that it is a caller of another kind, or killed

vars == <<METADATA, level, file_handlers, console_handlers, loggers, dirs, names,
          inodes, metadata_file, stderr, calls, raised, last, pc>>

NoException == "none"
\* The record of a call: the method, and the data and data_type given to write().
Call(op, data, data_type) == [op |-> op, data |-> data, data_type |-> data_type]
\* A metadata file: whether it exists, whether it holds a complete JSON
\* document (a file that open(..., 'w') has truncated and json.dump has not
\* yet filled does not), and the document's timestamps.
NoMetadataFile ==
    [exists |-> FALSE, complete |-> FALSE,
     collection_start |-> Unset, collection_end |-> Unset]

\* The position of the process: a statement of thermal_checker.py (at, and k
\* for the k-th of a run of write() calls) with the values of its locals
\* attempts, attempt_count, the text made of c_reading and f_reading, and
\* error (its class, and the length of str(error)); or "caller" for a process
\* that is not thermal_checker.py but some other caller of DataLogger, which
\* calls from outside any except block; or "json_dump" for such a caller
\* inside _write_metadata of its k-th DataLogger, between open() and
\* json.dump; or "killed".  run: how many times the program has been run in
\* its directory, this process included.
Caller ==
    [at |-> "caller", k |-> 0, attempts |-> 0, attempt_count |-> 0,
     reading |-> NoText, error |-> NoException, message |-> 0, run |-> 1]
Killed == [Caller EXCEPT !.at = "killed"]
\* The process moves to statement at (its k-th write).
At(at, k) == [pc EXCEPT !.at = at, !.k = k]

(***************************************************************************)
(* Log records and their formatted text.                                   *)
(***************************************************************************)
\* The LogRecord one of the root logger's methods makes of write()'s arguments:
\* switcher's entry for a member other than UNKNOWN, self._logger.exception
\* with the diagnostic for everything else.
LogCall(data, data_type, n) ==
    IF data_type \in {"INFO", "WARNING", "ERROR", "EXCEPTION"}
    THEN [n |-> n, kind |-> "data", data |-> data, offending |-> "",
          levelno |-> CASE data_type = "INFO" -> LevelINFO
                        [] data_type = "WARNING" -> LevelWARNING
                        [] OTHER -> LevelERROR,
          exc_info |-> (data_type = "EXCEPTION"),
          msglen |-> data.len, nl |-> data.nl, wide |-> data.wide]
    ELSE [n |-> n, kind |-> "diag", data |-> NoText, offending |-> data_type,
          levelno |-> LevelERROR,
          exc_info |-> TRUE,
          msglen |-> DiagBaseLen + StrLen(data_type), nl |-> FALSE, wide |-> 0]

\* logging.Formatter("%(message)s").format(record): the message, and for a record
\* with exc_info the traceback text, after a newline when the message does not
\* end in one.  len: the characters of the formatted text; wide: how many of
\* them take two bytes.
format(record) ==
    [n |-> record.n, kind |-> record.kind, data |-> record.data,
     offending |-> record.offending, tb |-> record.exc_info,
     len |-> record.msglen +
             (IF record.exc_info
              THEN (IF record.nl THEN 0 ELSE 1) + TracebackLen
              ELSE 0),
     wide |-> record.wide]

\* len("%s\n" % self.format(record)): the characters of the line.
MsgLen(line) == line.len + 1

\* The bytes the stream writes for the line: msg + terminator, encoded in UTF-8.
Encoded(line) == line.len + line.wide + 1

RECURSIVE Bytes(_, _, _)
\* The bytes of the lines from the a-th to the b-th of a file's content.
Bytes(content, a, b) ==
    IF a > b THEN 0
    ELSE IF a = b THEN Encoded(content[a])
    ELSE Bytes(content, a, (a + b) \div 2) + Bytes(content, (a + b) \div 2 + 1, b)

\* stream.tell() at the end of a file with this content: its size in bytes.
Size(content) == Bytes(content, 1, Len(content))

\* A slip: a threshold that also drops the records at the threshold itself.
isEnabledForStrict(levelno, lvl) == levelno > lvl

\* Logger.isEnabledFor(levelno) on the root logger.
isEnabledFor(levelno, lvl) == levelno >= lvl

(***************************************************************************)
(* The file system under the rotating handlers.  st is a record of names,  *)
(* inodes and the attached handlers (whose streams refer to inodes).       *)
(***************************************************************************)
Streams(hs) == {hs[h].stream : h \in DOMAIN hs}

Referenced(nm, hs) ==
    {nm[d][k] : d \in Dirs, k \in 0..MaxIdx} \cup Streams(hs)

\* A file nobody names and no attached handler holds open is gone.
Collect(st) ==
    [st EXCEPT !.inodes = [f \in 1..MaxInode |->
        IF f \in Referenced(st.names, st.handlers) THEN st.inodes[f] ELSE << >>]]

\* The file a creating open() makes.
FreshInode(nm, hs) ==
    CHOOSE f \in 1..MaxInode :
        /\ f \notin Referenced(nm, hs)
        /\ \A g \in 1..(f - 1) : g \in Referenced(nm, hs)

\* A slip of the mode: the data file opened with 'w', which empties a file
\* that is already there.
OpenBaseTruncate(st, h) ==
    LET d == st.handlers[h].dir
        f == IF st.names[d][0] # NoFile THEN st.names[d][0]
             ELSE FreshInode(st.names, st.handlers)
    IN [names |-> [st.names EXCEPT ![d][0] = f],
        inodes |-> [st.inodes EXCEPT ![f] = << >>],
        handlers |-> [st.handlers EXCEPT ![h].stream = f]]

\* open(<d>/cpu_temperatures, 'a') for handler h: the file of that name, created
\* empty when there is none.
OpenBase(st, h) ==
    LET d == st.handlers[h].dir
        f == IF st.names[d][0] # NoFile THEN st.names[d][0]
             ELSE FreshInode(st.names, st.handlers)
    IN [names |-> [st.names EXCEPT ![d][0] = f],
        inodes |-> IF st.names[d][0] # NoFile THEN st.inodes
                   ELSE [st.inodes EXCEPT ![f] = << >>],
        handlers |-> [st.handlers EXCEPT ![h].stream = f]]

\* The file named cpu_temperatures.k in d, or NoFile: os.path.exists.  No
\* file is named beyond MaxIdx: the one file set with a larger backupCount,
\* thermal_checker's, rolls over at most once in a run of the program.
Named(nm, d, k) == IF k \in 0..MaxIdx THEN nm[d][k] ELSE NoFile

RECURSIVE ShiftBackups(_, _, _)
\* The loop of doRollover: for i = backupCount - 1 down to 1, an existing
\* cpu_temperatures.i replaces cpu_temperatures.(i+1).
ShiftBackups(nm, d, i) ==
    IF i < 1 THEN nm
    ELSE ShiftBackups(
            IF Named(nm, d, i) # NoFile
            THEN [nm EXCEPT ![d][i + 1] = nm[d][i], ![d][i] = NoFile]
            ELSE nm,
            d, i - 1)

\* A slip: backups numbered in the order they are made (the base file renamed
\* to the first unused index) instead of shifted so that .1 is the newest.
doRolloverAscending(st, h) ==
    LET hd == st.handlers[h]
        d == hd.dir
        closed == [st.handlers EXCEPT ![h].stream = NoFile]
        unused == {k \in 1..hd.backupCount : st.names[d][k] = NoFile}
        target == IF unused = {} THEN hd.backupCount
                  ELSE CHOOSE k \in unused : \A k2 \in unused : k <= k2
        renamed == IF hd.backupCount > 0
                   THEN [st.names EXCEPT ![d][target] = st.names[d][0], ![d][0] = NoFile]
                   ELSE st.names
    IN OpenBase(Collect([names |-> renamed, inodes |-> st.inodes, handlers |-> closed]), h)

\* RotatingFileHandler.doRollover for handler h: close the stream, shift the
\* backups, rename the base file to .1, open a new base file.
doRollover(st, h) ==
    LET hd == st.handlers[h]
        d == hd.dir
        closed == [st.handlers EXCEPT ![h].stream = NoFile]
        shifted == ShiftBackups(st.names, d, hd.backupCount - 1)
        renamed == IF hd.backupCount > 0
                   THEN IF shifted[d][0] # NoFile
                        THEN [shifted EXCEPT ![d][1] = shifted[d][0], ![d][0] = NoFile]
                        ELSE [shifted EXCEPT ![d][1] = NoFile]
                   ELSE st.names
    IN OpenBase(Collect([names |-> renamed, inodes |-> st.inodes, handlers |-> closed]), h)

\* RotatingFileHandler.shouldRollover: the bytes of the stream's file plus the
\* characters of the line reach maxBytes.
shouldRollover(st, h, line) ==
    /\ st.handlers[h].maxBytes > 0
    /\ Size(st.inodes[st.handlers[h].stream]) + MsgLen(line) >= st.handlers[h].maxBytes

\* RotatingFileHandler.emit: roll over if due, then append to the stream.
emit(st, h, line) ==
    LET s1 == IF shouldRollover(st, h, line) THEN doRollover(st, h) ELSE st
        f == s1.handlers[h].stream
    IN [s1 EXCEPT !.inodes[f] = Append(@, line)]

RECURSIVE callHandlers(_, _, _)
\* Logger.callHandlers: every file handler of the root logger, in the order added.
callHandlers(st, h, line) ==
    IF h > Len(st.handlers) THEN st
    ELSE callHandlers(emit(st, h, line), h + 1, line)

State == [names |-> names, inodes |-> inodes, handlers |-> file_handlers]

\* The content of the file named cpu_temperatures[.k] in d.
Content(nm, ino, d, k) == IF nm[d][k] = NoFile THEN << >> ELSE ino[nm[d][k]]

(***************************************************************************)
(* The initial state: the process has imported data_logger, nothing is     *)
(* constructed, the directories do not exist.                              *)
(***************************************************************************)
Init ==
    /\ METADATA = [collection_start |-> Unset, collection_end |-> Unset]
    /\ level = RootDefaultLevel
    /\ file_handlers = << >>
    /\ console_handlers = 0
    /\ loggers = << >>
    /\ dirs = {}
    /\ names = [d \in Dirs |-> [k \in 0..MaxIdx |-> NoFile]]
    /\ inodes = [f \in 1..MaxInode |-> << >>]
    /\ metadata_file = [d \in Dirs |-> NoMetadataFile]
    /\ stderr = << >>
    /\ calls = 0
    /\ raised = NoException
    /\ last = Call("import", NoText, "")
    /\ pc = Caller

\* One more call is made: calls are numbered in the order they are made.  (The
\* bound is on the calls of an arbitrary caller: thermal_checker.py makes the
\* calls its text makes.)
Called(op, data, data_type) ==
    /\ pc = Caller => calls < MaxCalls
    /\ calls' = calls + 1
    /\ last' = Call(op, data, data_type)

(***************************************************************************)
(* os.makedirs(d), as thermal_checker does for "logs" before it constructs *)
(* its DataLogger; an existing directory is left as it is.                 *)
(***************************************************************************)
makedirs(d) ==
    /\ d \notin dirs
    /\ Called("makedirs", NoText, "")
    /\ dirs' = dirs \cup {d}
    /\ raised' = NoException
    /\ UNCHANGED <<METADATA, level, file_handlers, console_handlers, loggers, names,
                   inodes, metadata_file, stderr>>

(***************************************************************************)
(* DataLogger.__init__(data_file_dir, max_file_size, max_file_count)       *)
(***************************************************************************)
DataLogger(data_file_dir, max_file_size, max_file_count) ==
    /\ Len(loggers) < MaxLoggers
    /\ Called("__init__", NoText, "")
    /\ LET h == Len(file_handlers) + 1
           added == Append(file_handlers,
                           [dir |-> data_file_dir, maxBytes |-> max_file_size,
                            backupCount |-> max_file_count, stream |-> NoFile])
           opened == OpenBase([names |-> names, inodes |-> inodes, handlers |-> added], h)
       IN /\ dirs' = dirs \cup {data_file_dir}
          /\ names' = opened.names
          /\ inodes' = opened.inodes
          /\ file_handlers' = opened.handlers
          /\ console_handlers' = console_handlers + 1
          /\ level' = LevelINFO
          /\ loggers' = Append(loggers,
                 [data_dir_path |-> data_file_dir,
                  max_file_size |-> max_file_size,
                  max_file_count |-> max_file_count,
                  rotating_file_handler |->
                      [dir |-> data_file_dir, maxBytes |-> max_file_size,
                       backupCount |-> max_file_count, attached |-> h],
                  start_calls |-> 0,
                  end_calls |-> 0])
    /\ raised' = NoException
    /\ UNCHANGED <<METADATA, metadata_file, stderr>>

(***************************************************************************)
(* DataLogger.set_logging_level(logging_level)                             *)
(***************************************************************************)
set_logging_level(i, logging_level) ==
    /\ i \in DOMAIN loggers
    /\ Called("set_logging_level", NoText, "")
    /\ level' = logging_level
    /\ raised' = NoException
    /\ UNCHANGED <<METADATA, file_handlers, console_handlers, loggers, dirs, names,
                   inodes, metadata_file, stderr>>

(***************************************************************************)
(* DataLogger.write(data, data_type)                                       *)
(***************************************************************************)
\* What the console handlers print for a record: one copy per handler.
Echo(line) == [c \in 1..console_handlers |-> line]

\* A slip: a write() that opens the session when none was started, storing
\* the time of the first write as collection_start.
writeStartsSession(i, data, data_type) ==
    /\ i \in DOMAIN loggers
    /\ Called("write", data, data_type)
    /\ IF ~Hashable(data_type)
       THEN /\ raised' = "TypeError"
            /\ stderr' = << >>
            /\ UNCHANGED <<names, inodes, file_handlers>>
       ELSE LET record == LogCall(data, data_type, calls + 1)
                line == format(record)
                after == callHandlers(State, 1, line)
            IN /\ raised' = NoException
               /\ IF isEnabledFor(record.levelno, level)
                  THEN /\ names' = after.names
                       /\ inodes' = after.inodes
                       /\ file_handlers' = after.handlers
                       /\ stderr' = Echo(line)
                  ELSE /\ stderr' = << >>
                       /\ UNCHANGED <<names, inodes, file_handlers>>
    /\ \E t \in 1..MaxClock :
          METADATA' = IF METADATA.collection_start = Unset
                      THEN [METADATA EXCEPT !.collection_start = t]
                      ELSE METADATA
    /\ UNCHANGED <<level, console_handlers, loggers, dirs, metadata_file>>

write(i, data, data_type) ==
    /\ i \in DOMAIN loggers
    /\ Called("write", data, data_type)
    /\ IF ~Hashable(data_type)
       THEN \* switcher.get(data_type, None) raises TypeError
            /\ raised' = "TypeError"
            /\ stderr' = << >>
            /\ UNCHANGED <<names, inodes, file_handlers>>
       ELSE LET record == LogCall(data, data_type, calls + 1)
                line == format(record)
                after == callHandlers(State, 1, line)
            IN /\ raised' = NoException
               /\ IF isEnabledFor(record.levelno, level)
                  THEN /\ names' = after.names
                       /\ inodes' = after.inodes
                       /\ file_handlers' = after.handlers
                       /\ stderr' = Echo(line)
                  ELSE /\ stderr' = << >>
                       /\ UNCHANGED <<names, inodes, file_handlers>>
    /\ UNCHANGED <<METADATA, level, console_handlers, loggers, dirs, metadata_file>>

(***************************************************************************)
(* DataLogger.start(), DataLogger.end(), DataLogger._write_metadata()      *)
(***************************************************************************)
\* time.time(): the wall clock, which can be set forwards and backwards
\* between two readings.
Readings == 1..MaxClock

\* open(<d>/metadata.json, 'w'): the file is created, or truncated to nothing.
open_w(mf, d) ==
    [mf EXCEPT ![d] = [exists |-> TRUE, complete |-> FALSE,
                       collection_start |-> Unset, collection_end |-> Unset]]

\* json.dump(doc, metadata_file, ...) and the close at the end of the with
\* block: the document reaches the open file.
json_dump(mf, d, doc) ==
    [mf EXCEPT ![d] = [exists |-> TRUE, complete |-> TRUE,
                       collection_start |-> doc.collection_start,
                       collection_end |-> doc.collection_end]]

\* _write_metadata: open the metadata file under self._data_dir_path for
\* writing, json.dump self._metadata to it.
write_metadata(i, doc) ==
    json_dump(open_w(metadata_file, loggers[i].data_dir_path),
              loggers[i].data_dir_path, doc)

\* self._metadata: the name every instance binds to the one module-level dict.
Metadata(i) == METADATA

\* self._metadata["collection_start"] = time.time()
SetStart(doc, t) == [doc EXCEPT !.collection_start = t]

\* A slip of the key: end() storing its reading under "collection_start".
SetEndWrongKey(doc, t) == [doc EXCEPT !.collection_start = t]

\* self._metadata["collection_end"] = time.time()
SetEnd(doc, t) == [doc EXCEPT !.collection_end = t]

start(i) ==
    /\ i \in DOMAIN loggers
    /\ Called("start", NoText, "")
    /\ \E t \in Readings :
        /\ METADATA' = SetStart(Metadata(i), t)
        /\ metadata_file' = write_metadata(i, METADATA')
    /\ loggers' = [loggers EXCEPT ![i].start_calls = 1]
    /\ raised' = NoException
    /\ UNCHANGED <<level, file_handlers, console_handlers, dirs, names, inodes,
                   stderr>>

end(i) ==
    /\ i \in DOMAIN loggers
    /\ Called("end", NoText, "")
    /\ \E t \in Readings :
        /\ METADATA' = SetEnd(Metadata(i), t)
        /\ metadata_file' = write_metadata(i, METADATA')
    /\ loggers' = [loggers EXCEPT ![i].end_calls = 1]
    /\ raised' = NoException
    /\ UNCHANGED <<level, file_handlers, console_handlers, dirs, names, inodes,
                   stderr>>

(***************************************************************************)
(* start() and end() one file operation at a time, for the executions in   *)
(* which the disk refuses the metadata file or the process is killed       *)
(* between two operations.                                                 *)
(***************************************************************************)
\* No call is in progress.
Idle == pc = Caller

\* The first half of start() (op = "start") or end() (op = "end") on
\* DataLogger i: the timestamp is stored in self._metadata, then
\* _write_metadata opens the metadata file for writing.  ok: whether open()
\* succeeds; when it does not, OSError leaves _write_metadata and the method,
\* which have no handler for it.  When it does, the process is inside
\* _write_metadata of DataLogger i (pc.k), the file open.
stamp_and_open(i, op, ok) ==
    /\ i \in DOMAIN loggers
    /\ Idle
    /\ Called(op, NoText, "")
    /\ \E t \in Readings :
        /\ METADATA' = IF op = "start" THEN SetStart(Metadata(i), t)
                       ELSE SetEnd(Metadata(i), t)
    /\ loggers' = IF op = "start" THEN [loggers EXCEPT ![i].start_calls = 1]
                  ELSE [loggers EXCEPT ![i].end_calls = 1]
    /\ IF ok
       THEN /\ metadata_file' = open_w(metadata_file, loggers[i].data_dir_path)
            /\ raised' = NoException
            /\ pc' = At("json_dump", i)
       ELSE /\ raised' = "OSError"
            /\ UNCHANGED <<metadata_file, pc>>
    /\ UNCHANGED <<level, file_handlers, console_handlers, dirs, names, inodes,
                   stderr>>

\* The second half: json.dump writes self._metadata to the file that is open,
\* the with block closes it, the method returns.  ok: whether the disk takes
\* the document; when it does not (a full disk, a file size limit), OSError
\* leaves the with block, _write_metadata and the method, and the file stays
\* as open() left it, without a complete document.
dump_and_close(ok) ==
    /\ pc.at = "json_dump"
    /\ IF ok
       THEN /\ metadata_file' =
                  json_dump(metadata_file, loggers[pc.k].data_dir_path, METADATA)
            /\ UNCHANGED raised
       ELSE /\ raised' = "OSError"
            /\ UNCHANGED metadata_file
    /\ pc' = Caller
    /\ UNCHANGED <<METADATA, level, file_handlers, console_handlers, loggers, dirs,
                   names, inodes, stderr, calls, last>>

\* The process is killed (SIGKILL, power loss), between two calls or inside
\* _write_metadata: it does nothing more, and the files stay as they are.
kill ==
    /\ pc.at \in {"caller", "json_dump"}
    /\ pc' = Killed
    /\ UNCHANGED <<METADATA, level, file_handlers, console_handlers, loggers, dirs,
                   names, inodes, metadata_file, stderr, calls, raised, last>>

(***************************************************************************)
(* DataLogger.reset_file_handler(data_dir_path, max_file_size,             *)
(* max_file_count)                                                         *)
(***************************************************************************)
reset_file_handler(i, data_dir_path, max_file_size, max_file_count) ==
    /\ i \in DOMAIN loggers
    /\ Called("reset_file_handler", NoText, "")
    /\ IF data_dir_path \notin dirs
       THEN \* RotatingFileHandler's open() fails: no such directory
            /\ raised' = "FileNotFoundError"
            /\ UNCHANGED <<loggers, names, inodes>>
       ELSE /\ raised' = NoException
            /\ loggers' = [loggers EXCEPT ![i].rotating_file_handler =
                   [dir |-> data_dir_path,
                    maxBytes |-> IF max_file_size # NoArg THEN max_file_size
                                 ELSE loggers[i].max_file_size,
                    backupCount |-> IF max_file_count # NoArg THEN max_file_count
                                    ELSE loggers[i].max_file_count,
                    attached |-> 0]]
            /\ LET f == FreshInode(names, file_handlers)
               IN IF names[data_dir_path][0] # NoFile
                  THEN UNCHANGED <<names, inodes>>
                  ELSE /\ names' = [names EXCEPT ![data_dir_path][0] = f]
                       /\ inodes' = [inodes EXCEPT ![f] = << >>]
    /\ UNCHANGED <<METADATA, level, file_handlers, console_handlers, dirs,
                   metadata_file, stderr>>

(***************************************************************************)
(* thermal_checker.py, statement by statement.  data_logger is the first   *)
(* (and only) DataLogger of the process.                                   *)
(***************************************************************************)
\* The texts main writes around the readings: '\n', a rule of 30 characters,
\* the date, a rule of 30 characters.
Banner(date) == <<Text(1, TRUE, 0), Text(30, FALSE, 0), date, Text(30, FALSE, 0)>>

\* str(datetime.datetime.now()): "YYYY-MM-DD HH:MM:SS.ffffff", and
\* "YYYY-MM-DD HH:MM:SS" at a time whose microsecond is 0.
DateTexts == {Text(19, FALSE, 0), Text(26, FALSE, 0)}

\* The texts of the except clause of collect_thermal_readings: '\r' and
\* "Cannot find thermal data.\n".
CarriageReturn == Text(1, FALSE, 0)
CannotFind == Text(26, TRUE, 0)

\* The integers the sysfs file is read to hold, in millidegrees Celsius.
MilliCelsius == {45000, 45123}
\* The texts it is read to hold that are no integer, by their lengths after
\* strip(): an empty file, and three characters such as "abc".
JunkLens == {0, 3}

RECURSIVE Digits(_)
\* len(str(n)) for an integer n >= 0.
Digits(n) == IF n < 10 THEN 1 ELSE 1 + Digits(n \div 10)

\* len(str(round(x, 3))) for the float x >= 0 of this many thousandths: the
\* integer part, the point, and the decimals up to the last that is not 0
\* (one decimal at least).
FloatLen(thousandths) ==
    LET decimals == thousandths % 1000
    IN Digits(thousandths \div 1000) + 1 +
       (IF decimals % 100 = 0 THEN 1 ELSE IF decimals % 10 = 0 THEN 2 ELSE 3)

\* round(whole_fahrenheit + decimal_fahrenheit / 1000, 3), in thousandths:
\* each of the whole degrees and the millidegrees is converted with * 1.8 + 32.
Fahrenheit(milli_celsius) ==
    LET whole_celsius == milli_celsius \div 1000
        decimal_celsius == milli_celsius - whole_celsius * 1000
        \* in tenths of a degree, and in tenths of a millidegree
        whole_fahrenheit == whole_celsius * 18 + 320
        decimal_fahrenheit == decimal_celsius * 18 + 320
    IN (whole_fahrenheit * 1000 + decimal_fahrenheit + 5) \div 10

\* '\n' + c_reading + '\n' + f_reading, where each reading ends in the degree
\* sign (two bytes) and the letter of its unit.
ReadingText(milli_celsius) ==
    Text(1 + FloatLen(milli_celsius) + 2 + 1 + FloatLen(Fahrenheit(milli_celsius)) + 2,
         FALSE, 2)

\* len(str(error)) for the ValueError of int() given a text of this length:
\* "invalid literal for int() with base 10: " and the text in quotes.
ValueErrorMessage(junk) == 40 + 2 + junk

\* What _parse_configs and the two lookups of main meet: a config.json that
\* holds delay_sec and attempts ("ok"); no config.json in the directory
\* given; one that is not JSON; one that lacks a key.
ConfigOutcomes == {"ok", "FileNotFoundError", "JSONDecodeError", "KeyError"}

\* len(str(error)) for these, over the inputs that give them.
\* FileNotFoundError: "[Errno 2] No such file or directory: " and the path in
\* quotes, for "configs/config.json" and for --config-file elsewhere.
\* JSONDecodeError: "Expecting value: line 1 column 1 (char 0)" for an empty
\* file, "Expecting property name enclosed in double quotes: line 1 column 2
\* (char 1)" for one that holds "{".  KeyError: "'attempts'", "'delay_sec'".
ConfigMessages(error) ==
    CASE error = "FileNotFoundError" -> {37 + 2 + Len("configs/config.json"),
                                          37 + 2 + Len("elsewhere/config.json")}
      [] error = "JSONDecodeError" -> {41, 75}
      [] error = "KeyError" -> {2 + Len("attempts"), 2 + Len("delay_sec")}
      [] OTHER -> {0}

\* str(type(error)): "<class 'ValueError'>", and so on.
ClassText(error) ==
    Text(CASE error = "ValueError" -> 20
           [] error = "FileNotFoundError" -> 27
           [] error = "JSONDecodeError" -> 38
           [] OTHER -> 18,
         FALSE, 0)

\* "Encountered unknown exception: {}".format(error)
ErrorText(message) == Text(31 + message, FALSE, 0)

\* Lines 17-22: os.makedirs("logs"), an existing directory being accepted.
main_makedirs ==
    /\ pc.at = "import"
    /\ pc' = At("construct", 0)
    /\ IF "logs" \in dirs
       THEN UNCHANGED <<METADATA, level, file_handlers, console_handlers, loggers,
                        dirs, names, inodes, metadata_file, stderr, calls,
                        raised, last>>
       ELSE makedirs("logs")

\* Line 24: data_logger = DataLogger("logs", max_file_size=4000, max_file_count=10)
main_construct ==
    /\ pc.at = "construct"
    /\ DataLogger("logs", MainFileSize, MainFileCount)
    /\ pc' = At("parse_arguments", 0)

\* Line 119, _parse_arguments, given a command line argparse rejects (a
\* --log-level outside the choices, or --help): parse_known_args raises
\* SystemExit, which is no Exception: the handler of __main__ lets it pass
\* and the process exits.
main_parse_arguments_exit ==
    /\ pc.at = "parse_arguments"
    /\ pc' = [At("exit", 0) EXCEPT !.error = "SystemExit"]
    /\ raised' = "SystemExit"
    /\ UNCHANGED <<METADATA, level, file_handlers, console_handlers, loggers, dirs,
                   names, inodes, metadata_file, stderr, calls, last>>

\* Lines 119-123: _parse_arguments returns the --log-level (INFO by default)
\* and main sets it.
main_set_logging_level(log_level) ==
    /\ pc.at = "parse_arguments"
    /\ set_logging_level(1, log_level)
    /\ pc' = At("parse_configs", 0)

\* Lines 125-134: _parse_configs reads config.json and main takes delay_sec
\* and attempts from it.  A file that is missing or is not the JSON expected
\* raises to the handler of __main__.
main_parse_configs(outcome, message, attempts) ==
    /\ pc.at = "parse_configs"
    /\ IF outcome = "ok"
       THEN /\ pc' = [At("start", 0) EXCEPT !.attempts = attempts]
            /\ raised' = NoException
       ELSE /\ message \in ConfigMessages(outcome)
            /\ pc' = [At("except", 1) EXCEPT !.error = outcome,
                                             !.message = message]
            /\ raised' = outcome
    /\ UNCHANGED <<METADATA, level, file_handlers, console_handlers, loggers, dirs,
                   names, inodes, metadata_file, stderr, calls, last>>

\* Line 136: data_logger.start()
main_start ==
    /\ pc.at = "start"
    /\ start(1)
    /\ pc' = At("header", 1)

\* Lines 138-141: the four writes before the readings.
main_header ==
    /\ pc.at = "header"
    /\ \E date \in DateTexts : write(1, Banner(date)[pc.k], "INFO")
    /\ pc' = IF pc.k < 4 THEN At("header", pc.k + 1) ELSE At("while", 0)

\* Lines 104-106: the test of the while loop and the count of the attempt.
collect_while ==
    /\ pc.at = "while"
    /\ pc' = IF pc.attempt_count < pc.attempts
             THEN [At("read", 0) EXCEPT !.attempt_count = pc.attempt_count + 1]
             ELSE At("footer", 1)
    /\ UNCHANGED <<METADATA, level, file_handlers, console_handlers, loggers, dirs,
                   names, inodes, metadata_file, stderr, calls, raised, last>>

\* Line 108, read_thermal_data().  outcome: the text of the sysfs file is the
\* integer milli_celsius ("ok"), and the readings are made of it; open() or
\* read() fails ("IOError", which the except clause of
\* collect_thermal_readings catches); the text, of length junk, is no integer
\* and int() raises ("ValueError", which no clause of
\* collect_thermal_readings catches).
read_thermal_data(outcome, milli_celsius, junk) ==
    /\ pc.at = "read"
    /\ CASE outcome = "ok" ->
                pc' = [At("write_reading", 0) EXCEPT
                          !.reading = ReadingText(milli_celsius)]
                /\ raised' = NoException
         [] outcome = "IOError" ->
                pc' = [At("except_IOError", 1) EXCEPT !.error = outcome]
                /\ raised' = outcome
         [] OTHER ->
                pc' = [At("except", 1) EXCEPT !.error = outcome,
                                              !.message = ValueErrorMessage(junk)]
                /\ raised' = outcome
    /\ UNCHANGED <<METADATA, level, file_handlers, console_handlers, loggers, dirs,
                   names, inodes, metadata_file, stderr, calls, last>>

\* Line 110: data_logger.write('\n' + c_reading + '\n' + f_reading)
collect_write ==
    /\ pc.at = "write_reading"
    /\ write(1, pc.reading, "INFO")
    /\ pc' = At("sleep", 0)

\* Line 112: _count_down_sleep_status(delay_sec).  outcome: the countdown
\* runs to its end ("ok"); the process is interrupted while it sleeps
\* ("KeyboardInterrupt", which is no Exception: neither the except clause of
\* collect_thermal_readings nor the handler of __main__ catches it, and the
\* process exits); sys.stdout refuses the countdown text ("IOError", as for a
\* closed pipe, which the except clause of collect_thermal_readings catches).
count_down_sleep_status(outcome) ==
    /\ pc.at = "sleep"
    /\ CASE outcome = "ok" ->
                pc' = At("while", 0) /\ UNCHANGED raised
         [] outcome = "IOError" ->
                pc' = [At("except_IOError", 1) EXCEPT !.error = outcome]
                /\ raised' = outcome
         [] OTHER ->
                pc' = [At("exit", 0) EXCEPT !.error = outcome]
                /\ raised' = outcome
    /\ UNCHANGED <<METADATA, level, file_handlers, console_handlers, loggers, dirs,
                   names, inodes, metadata_file, stderr, calls, last>>

\* Lines 113-115: except IOError: the two writes, the second classified ERROR;
\* collect_thermal_readings then returns to main.
collect_except_IOError ==
    /\ pc.at = "except_IOError"
    /\ IF pc.k = 1
       THEN write(1, CarriageReturn, "INFO") /\ pc' = At("except_IOError", 2)
       ELSE write(1, CannotFind, "ERROR") /\ pc' = At("footer", 1)

\* Lines 145-148: the four writes after the readings.
main_footer ==
    /\ pc.at = "footer"
    /\ \E date \in DateTexts : write(1, Banner(date)[pc.k], "INFO")
    /\ pc' = IF pc.k < 4 THEN At("footer", pc.k + 1) ELSE At("end", 0)

\* Line 150: data_logger.end(); main returns and the process exits.
main_end ==
    /\ pc.at = "end"
    /\ end(1)
    /\ pc' = At("exit", 0)

\* Lines 156-158: the handler of __main__: the exception that left main is
\* written (its class, then its text classified ERROR) and the process exits.
main_except ==
    /\ pc.at = "except"
    /\ IF pc.k = 1
       THEN write(1, ClassText(pc.error), "INFO") /\ pc' = At("except", 2)
       ELSE write(1, ErrorText(pc.message), "ERROR") /\ pc' = At("exit", 0)

\* The line of a text that an earlier process wrote.
EarlierLine(text) == format(LogCall(text, "INFO", 0))

\* What a run of the program that found no thermal data wrote to the data
\* file: the header, the two texts of the except clause, the footer.
EarlierRun ==
    LET texts == Banner(Text(26, FALSE, 0)) \o <<CarriageReturn, CannotFind>>
                 \o Banner(Text(26, FALSE, 0))
    IN [x \in 1..Len(texts) |-> EarlierLine(texts[x])]

RECURSIVE Repeat(_, _)
\* What n such runs wrote, one after the other.
Repeat(lines, n) == IF n = 0 THEN << >> ELSE lines \o Repeat(lines, n - 1)

\* The most such runs whose lines one data file holds without a rollover.
FullRuns == MainFileSize \div Size(EarlierRun)

\* The program is run again in the directory it was run in: a new process,
\* with the module state of a process that has imported nothing, finds the
\* directories and files the earlier processes left.
run_again ==
    /\ pc.at = "exit"
    /\ pc.run < MaxRuns
    /\ pc' = [Caller EXCEPT !.at = "import", !.run = pc.run + 1]
    /\ METADATA' = [collection_start |-> Unset, collection_end |-> Unset]
    /\ level' = RootDefaultLevel
    /\ file_handlers' = << >>
    /\ console_handlers' = 0
    /\ loggers' = << >>
    /\ inodes' = Collect([names |-> names, inodes |-> inodes, handlers |-> << >>]).inodes
    /\ stderr' = << >>
    /\ calls' = 0
    /\ raised' = NoException
    /\ last' = Call("import", NoText, "")
    /\ UNCHANGED <<dirs, names, metadata_file>>

\* The first process starts: nothing is imported yet.  "logs" may be there,
\* empty, or with the data file that earlier runs which found no thermal
\* data have filled to the brim and the metadata file the latest of them
\* wrote.
MainInit ==
    /\ METADATA = [collection_start |-> Unset, collection_end |-> Unset]
    /\ level = RootDefaultLevel
    /\ file_handlers = << >>
    /\ console_handlers = 0
    /\ loggers = << >>
    /\ \E runs \in {0, FullRuns} :
        /\ dirs \in (IF runs = 0 THEN {{}, {"logs"}} ELSE {{"logs"}})
        /\ names = [d \in Dirs |-> [k \in 0..MaxIdx |->
                        IF runs > 0 /\ d = "logs" /\ k = 0 THEN 1 ELSE NoFile]]
        /\ inodes = [f \in 1..MaxInode |->
                        IF f = 1 THEN Repeat(EarlierRun, runs) ELSE << >>]
        /\ \E t1 \in Readings, t2 \in Readings :
             metadata_file = [d \in Dirs |->
                        IF runs > 0 /\ d = "logs"
                        THEN [exists |-> TRUE, complete |-> TRUE,
                              collection_start |-> t1, collection_end |-> t2]
                        ELSE NoMetadataFile]
    /\ stderr = << >>
    /\ calls = 0
    /\ raised = NoException
    /\ last = Call("import", NoText, "")
    /\ pc = [Caller EXCEPT !.at = "import"]

MainNext ==
    \/ main_makedirs
    \/ main_construct
    \/ main_parse_arguments_exit
    \/ \E log_level \in Levels : main_set_logging_level(log_level)
    \/ \E outcome \in ConfigOutcomes, attempts \in 1..MaxAttempts :
            \E message \in ConfigMessages(outcome) :
                main_parse_configs(outcome, message, attempts)
    \/ main_start
    \/ main_header
    \/ collect_while
    \/ \E outcome \in {"ok", "IOError", "ValueError"},
          milli_celsius \in MilliCelsius, junk \in JunkLens :
            read_thermal_data(outcome, milli_celsius, junk)
    \/ collect_write
    \/ \E outcome \in {"ok", "IOError", "KeyboardInterrupt"} :
            count_down_sleep_status(outcome)
    \/ collect_except_IOError
    \/ main_footer
    \/ main_end
    \/ main_except
    \/ run_again

MainSpec == MainInit /\ [][MainNext]_vars

\* A caller that makes any call at any time.
Next ==
    \/ \E d \in Dirs : makedirs(d) /\ UNCHANGED pc
    \/ \E d \in Dirs, s \in FileSizes, c \in FileCounts :
            DataLogger(d, s, c) /\ UNCHANGED pc
    \/ \E i \in 1..MaxLoggers, l \in Levels : set_logging_level(i, l) /\ UNCHANGED pc
    \/ \E i \in 1..MaxLoggers, data \in DataTexts, t \in DataTypeInputs :
            write(i, data, t) /\ UNCHANGED pc
    \/ \E i \in 1..MaxLoggers : start(i) /\ UNCHANGED pc
    \/ \E i \in 1..MaxLoggers : end(i) /\ UNCHANGED pc
    \/ \E i \in 1..MaxLoggers, d \in Dirs, given \in ResetArgs :
            reset_file_handler(i, d, given[1], given[2]) /\ UNCHANGED pc

Spec == Init /\ [][Next]_vars

\* A caller that constructs DataLoggers, writes, and starts and ends
\* sessions, on a disk that can fail and in a process that can be killed.
FaultNext ==
    \/ \E d \in Dirs, s \in FileSizes, c \in FileCounts :
            Idle /\ DataLogger(d, s, c) /\ UNCHANGED pc
    \/ \E i \in 1..MaxLoggers, data \in DataTexts, t \in DataTypeInputs :
            Idle /\ write(i, data, t) /\ UNCHANGED pc
    \/ \E i \in 1..MaxLoggers, op \in {"start", "end"}, ok \in BOOLEAN :
            stamp_and_open(i, op, ok)
    \/ \E ok \in BOOLEAN : dump_and_close(ok)
    \/ kill

FaultSpec == Init /\ [][FaultNext]_vars

(***************************************************************************)
(* The claims.                                                             *)
(***************************************************************************)
\* The data files that exist in directory d.
FilesIn(d) == {k \in 0..MaxIdx : names[d][k] # NoFile}

\* The write() that is being made passes the threshold and reaches the handlers.
Passes(data, data_type) ==
    /\ Hashable(data_type)
    /\ isEnabledFor(LogCall(data, data_type, calls + 1).levelno, level)

\* The line the write() being made hands to the handlers.
LineOf(data, data_type) == format(LogCall(data, data_type, calls + 1))

\* The step is the call write(data, t) on DataLogger i (the record of the call
\* is compared first: it is the cheap half of the test).
WritesOn(i, data, t) ==
    /\ last'.op = "write"
    /\ last'.data_type = t
    /\ last'.data = data
    /\ write(i, data, t)

\* The step is the call write(data, t) on some DataLogger: one more call has
\* been made and it is recorded as this write (no other call is recorded so).
Writes(data, t) == calls' = calls + 1 /\ last' = Call("write", data, t)

\* The step is the call start(), or end(), on DataLogger i.
Starts(i) == last'.op = "start" /\ start(i)
Ends(i) == last'.op = "end" /\ end(i)

\* C1 (rotation bound): for a DataLogger constructed with max_file_count = N,
\* the number of data files in its directory never exceeds N.
C1_RotationBound ==
    \A i \in DOMAIN loggers :
        Cardinality(FilesIn(loggers[i].data_dir_path)) <= loggers[i].max_file_count

\* C2 (redirect on reset): once reset_file_handler(new_dir) has returned on a
\* DataLogger, each of its writes that passes the threshold is appended to the
\* active file under new_dir, and the file set that was active before the reset
\* is not written.
C2_RedirectOnReset ==
    [][\A i \in DOMAIN loggers, data \in DataTexts, t \in DataTypeInputs :
        LET target == loggers[i].rotating_file_handler
            old == loggers[i].data_dir_path
            active == Content(names', inodes', target.dir, 0)
        IN (WritesOn(i, data, t) /\ target.attached = 0 /\ Passes(data, t)) =>
              /\ active # << >>
              /\ active[Len(active)] = LineOf(data, t)
              /\ target.dir # old =>
                    \A k \in 0..MaxIdx :
                        Content(names', inodes', old, k) = Content(names, inodes, old, k)
      ]_vars

\* C3 (metadata monotonicity), as claimed: in every reachable state, whatever
\* the order of the start() and end() calls, collection_start <= collection_end
\* when both are set.
C3_MonotoneAnyOrder ==
    (METADATA.collection_start # Unset /\ METADATA.collection_end # Unset)
        => METADATA.collection_start <= METADATA.collection_end

\* C3, amended: every end() stores its reading of the clock in collection_end
\* and leaves collection_start as it was, in memory and in the metadata file
\* it writes, so that collection_start <= collection_end after an end() whose
\* reading is not earlier than collection_start; and no call other than
\* start() and end() undoes the order.
C3_MonotoneAfterEnd ==
    [][/\ \A i \in DOMAIN loggers :
            Ends(i) =>
                /\ METADATA'.collection_end \in Readings
                /\ METADATA'.collection_start = METADATA.collection_start
                /\ METADATA'.collection_end >= METADATA.collection_start
                      => C3_MonotoneAnyOrder'
                /\ LET f == metadata_file'[loggers[i].data_dir_path]
                   IN /\ f.exists
                      /\ f.collection_start = METADATA'.collection_start
                      /\ f.collection_end = METADATA'.collection_end
       /\ (C3_MonotoneAnyOrder /\ \A i \in DOMAIN loggers : ~Starts(i) /\ ~Ends(i))
              => C3_MonotoneAnyOrder'
      ]_vars

\* A session that was started and later ended, the clock having advanced.
C3_Witness ==
    /\ last.op = "end"
    /\ METADATA.collection_start # Unset
    /\ METADATA.collection_start < METADATA.collection_end

\* C4 (fresh metadata per instance): the metadata document of an instance has
\* collection_start = -1 until start() is called on that instance and
\* collection_end = -1 until end() is called on it, whatever was called on the
\* other instances.
C4_FreshMetadata ==
    \A i \in DOMAIN loggers :
        /\ loggers[i].start_calls = 0 => Metadata(i).collection_start = Unset
        /\ loggers[i].end_calls = 0 => Metadata(i).collection_end = Unset

\* Handler h is the only attached handler on its directory: its file set has
\* the single owner the data model gives a file set.
Exclusive(h) ==
    \A g \in DOMAIN file_handlers :
        g # h => file_handlers[g].dir # file_handlers[h].dir

\* The lines of a file as a set.
Lines(content) == {content[x] : x \in DOMAIN content}

\* C5 (size trigger): a write whose formatted line would take the active file
\* beyond max_file_size bytes rotates exactly once before the line is appended:
\* afterwards the active file holds exactly that line, the previous active file
\* is file .1 with its content untouched, and every older backup moved up by one.
C5_SizeTrigger ==
    [][\A data \in DataTexts, t \in DataTypeInputs :
        (Writes(data, t) /\ Passes(data, t)) =>
            \A h \in DOMAIN file_handlers :
                LET hd == file_handlers[h]
                    d == hd.dir
                    before == Content(names, inodes, d, 0)
                    line == LineOf(data, t)
                IN (Exclusive(h) /\ Size(before) + Encoded(line) > hd.maxBytes) =>
                      /\ Content(names', inodes', d, 0) = <<line>>
                      /\ names'[d][1] = names[d][0]
                      /\ Content(names', inodes', d, 1) = before
                      /\ \A k \in 1..(hd.backupCount - 1) :
                            names[d][k] # NoFile => names'[d][k + 1] = names[d][k]
      ]_vars

\* C6 (ordering invariant): in a file set, every record of file j was written
\* before every record of file i for i < j, the records of one file are in the
\* order written, and the active file is not empty while a backup holds records
\* (so the active file holds the most recently written record).
C6_Ordering ==
    \A h \in DOMAIN file_handlers :
        LET d == file_handlers[h].dir
        IN Exclusive(h) =>
              /\ \A i \in 0..MaxIdx, j \in 0..MaxIdx :
                    i < j =>
                        \A a \in Lines(Content(names, inodes, d, j)),
                           b \in Lines(Content(names, inodes, d, i)) : a.n < b.n
              /\ \A k \in 0..MaxIdx :
                    LET c == Content(names, inodes, d, k)
                    IN \A x \in DOMAIN c, y \in DOMAIN c : x < y => c[x].n < c[y].n
              /\ (\E k \in 1..MaxIdx : Content(names, inodes, d, k) # << >>)
                    => Content(names, inodes, d, 0) # << >>

\* Two rotations have happened: three files, each holding records.
C6_Witness ==
    \E h \in DOMAIN file_handlers :
        /\ Exclusive(h)
        /\ \A k \in 0..2 : Content(names, inodes, file_handlers[h].dir, k) # << >>

\* The data_type values write() has no switcher entry for.
Unsupported == DataTypeInputs \ {"INFO", "WARNING", "ERROR", "EXCEPTION"}

\* The line reached some sink: a console handler or the active file of a
\* handler.  (err, nm, ino, hs: stderr, names, inodes and file_handlers after
\* the call.)
InSomeSink(line, err, nm, ino, hs) ==
    \/ \E c \in DOMAIN err : err[c] = line
    \/ \E h \in DOMAIN hs : line \in Lines(Content(nm, ino, hs[h].dir, 0))

\* C7 (unknown severity always passes): under every threshold
\* set_logging_level can be given, CRITICAL included, a write with UNKNOWN or
\* an unsupported data_type is never dropped: it puts a record, its
\* diagnostic, in the output.
C7_UnknownAlwaysPasses ==
    [][\A data \in DataTexts, t \in Unsupported :
        Writes(data, t) =>
            InSomeSink(LineOf(data, t), stderr', names', inodes', file_handlers')
      ]_vars

\* C8 (severity filtering): while the threshold set_logging_level(WARNING) set
\* is in force, a write with data_type INFO changes no file and echoes nothing,
\* and a write with WARNING, ERROR or EXCEPTION appends its line to the active
\* file of every file set the process writes (the last line of that file).
C8_SeverityFiltering ==
    [][\A data \in DataTexts, t \in DataTypeNames :
        (Writes(data, t) /\ level = LevelWARNING) =>
            /\ t = "INFO" =>
                  /\ UNCHANGED <<names, inodes, file_handlers>>
                  /\ stderr' = << >>
            /\ t \in {"WARNING", "ERROR", "EXCEPTION"} =>
                  /\ file_handlers' # << >>
                  /\ \A h \in DOMAIN file_handlers' :
                        LET active == Content(names', inodes', file_handlers'[h].dir, 0)
                        IN active # << >> /\ active[Len(active)] = LineOf(data, t)
      ]_vars

\* An INFO write has just been dropped under the WARNING threshold, next to a
\* file that holds an earlier record.
C8_Witness ==
    /\ last.op = "write"
    /\ last.data_type = "INFO"
    /\ level = LevelWARNING
    /\ stderr = << >>
    /\ \E h \in DOMAIN file_handlers :
          Content(names, inodes, file_handlers[h].dir, 0) # << >>

\* C9 (invalid severity is recovered locally): a write with a data_type outside
\* INFO, WARNING, ERROR, EXCEPTION raises nothing and emits exactly one record,
\* the diagnostic that names the offending value, logged through
\* logger.exception.
C9_InvalidSeverityRecovered ==
    [][\A data \in DataTexts, t \in Unsupported :
        Writes(data, t) =>
            /\ raised' = NoException
            /\ stderr' # << >>
            /\ \A c \in DOMAIN stderr' :
                  /\ stderr'[c].kind = "diag"
                  /\ stderr'[c].offending = t
                  /\ stderr'[c].tb
                  /\ stderr'[c].n = calls'
      ]_vars

\* C10 (the original text survives an invalid severity): the output a write
\* with an unsupported data_type produces carries the caller's data text.
C10_OriginalTextSurfaced ==
    [][\A data \in DataTexts, t \in Unsupported :
        (Writes(data, t) /\ stderr' # << >>) =>
            \E c \in DOMAIN stderr' : stderr'[c].kind = "data" /\ stderr'[c].data = data
      ]_vars

\* C11 (atomic metadata persist): if the process is killed at any point of
\* start() or end(), every metadata file on disk holds a complete document,
\* never an empty or partly written one.
C11_AtomicPersist ==
    pc = Killed =>
        \A d \in Dirs : metadata_file[d].exists => metadata_file[d].complete

\* C12 (persist on every mutation): between two calls, the metadata document
\* of every DataLogger that has a timestamp set is what its metadata file (the
\* one under its directory) holds: no timestamp is in memory and not on disk.
C12_PersistOnEveryMutation ==
    \A i \in DOMAIN loggers :
        LET doc == Metadata(i)
            f == metadata_file[loggers[i].data_dir_path]
        IN (doc.collection_start # Unset \/ doc.collection_end # Unset) =>
              /\ f.exists /\ f.complete
              /\ f.collection_start = doc.collection_start
              /\ f.collection_end = doc.collection_end

\* The step is the failure of a start() or end() on DataLogger i: its
\* metadata file cannot be opened for writing, or cannot be written.
PersistFails(i, op) ==
    \/ last'.op = op /\ stamp_and_open(i, op, FALSE)
    \/ last.op = op /\ pc.k = i /\ dump_and_close(FALSE)

\* C13 (metadata persist failure is contained): a start() or end() whose
\* write of the metadata file fails raises nothing to its caller and puts a
\* record of the failure on the console.
C13_PersistFailureContained ==
    [][\A i \in DOMAIN loggers, op \in {"start", "end"} :
        PersistFails(i, op) => (raised' = NoException /\ stderr' # << >>)
      ]_vars

\* C14 (start precedes the first write): in every execution of
\* thermal_checker.py, failed ones included, no write() is made before start()
\* has been called, and the process does not exit without having called it.
C14_StartPrecedesFirstWrite ==
    /\ last.op = "write" => loggers[1].start_calls = 1
    /\ pc.at = "exit" => (loggers # << >> /\ loggers[1].start_calls = 1)

\* The step is a read_thermal_data() that fails.
ReadFails ==
    /\ pc.at = "read"
    /\ pc'.at # "read"
    /\ pc'.error # NoException

\* The step is the construction DataLogger(d, s, c).
Constructs(d, s, c) ==
    /\ last'.op = "__init__"
    /\ DataLogger(d, s, c)

\* C15 (idempotent construction): constructing a DataLogger on a directory
\* that exists, whatever it holds and whichever DataLoggers already write
\* there, raises nothing and leaves every existing data file under its name
\* with its content, and every metadata file as it is.
C15_IdempotentConstruction ==
    [][\A d \in Dirs, s \in FileSizes, c \in FileCounts :
        (Constructs(d, s, c) /\ d \in dirs) =>
            /\ raised' = NoException
            /\ dirs' = dirs
            /\ metadata_file' = metadata_file
            /\ \A d2 \in Dirs, k \in 0..MaxIdx :
                  names[d2][k] # NoFile =>
                      /\ names'[d2][k] = names[d2][k]
                      /\ inodes'[names[d2][k]] = inodes[names[d2][k]]
      ]_vars

\* A second DataLogger has just been constructed on the directory of the
\* first, where the active file holds a record and the metadata file exists.
C15_Witness ==
    /\ last.op = "__init__"
    /\ Len(loggers) = 2
    /\ loggers[1].data_dir_path = loggers[2].data_dir_path
    /\ Content(names, inodes, loggers[1].data_dir_path, 0) # << >>
    /\ metadata_file[loggers[1].data_dir_path].exists

\* C16 (sampler failure classification): every failure of a temperature read
\* is caught inside collect_thermal_readings, by the clause that writes the
\* message classified ERROR; none leaves the function as an exception.
C16_SamplerFailureClassified ==
    [][ReadFails => pc'.at = "except_IOError"]_vars

\* The places in the data files where the line of call n stands: directory,
\* file index, position.  (nm, ino: names and inodes.)
Copies(nm, ino, n) ==
    UNION {{<<d, k, x>> : x \in {y \in DOMAIN Content(nm, ino, d, k) :
                                    Content(nm, ino, d, k)[y].n = n}} :
           d \in Dirs, k \in 0..MaxIdx}

\* C17 (exactly-once consumption): a write that passes the threshold puts its
\* line in the data files exactly once, in an active file, and on the console
\* exactly once, however many DataLoggers the process has constructed.
C17_ExactlyOnce ==
    [][\A data \in DataTexts, t \in DataTypeInputs :
        (Writes(data, t) /\ Passes(data, t)) =>
            /\ Len(stderr') = 1
            /\ Cardinality(Copies(names', inodes', calls')) = 1
            /\ \A p \in Copies(names', inodes', calls') : p[2] = 0
      ]_vars

\* The step is the call reset_file_handler(d, s, c) on DataLogger i.
Resets(i, d, s, c) ==
    /\ last'.op = "reset_file_handler"
    /\ reset_file_handler(i, d, s, c)

\* C18 (reset keeps unspecified bounds): a reset_file_handler that returns
\* leaves each bound it was not given equal to the bound of the handler the
\* instance had before the call, whether that came from the constructor or
\* from an earlier reset.
C18_ResetKeepsBounds ==
    [][\A i \in DOMAIN loggers, d \in Dirs, given \in ResetArgs :
        (Resets(i, d, given[1], given[2]) /\ raised' = NoException) =>
            LET old == loggers[i].rotating_file_handler
                new == loggers'[i].rotating_file_handler
            IN /\ given[1] = NoArg => new.maxBytes = old.maxBytes
               /\ given[2] = NoArg => new.backupCount = old.backupCount
      ]_vars

\* C19 (only start() and end() change the session): a write() or a
\* reset_file_handler(), in whatever phase of the session, leaves the metadata
\* document, the metadata files and the record of the start()/end() calls of
\* every DataLogger as they were; the phase has no part in whether the call
\* is accepted (write raises exactly for an unhashable data_type,
\* reset_file_handler exactly for a missing directory); and while no start()
\* has been called a write leaves collection_start at -1.
C19_OnlyStartEndChangeSession ==
    [][/\ (calls' # calls /\ last'.op \in {"write", "reset_file_handler"}) =>
            /\ METADATA' = METADATA
            /\ metadata_file' = metadata_file
            /\ DOMAIN loggers' = DOMAIN loggers
            /\ \A i \in DOMAIN loggers :
                  /\ loggers'[i].start_calls = loggers[i].start_calls
                  /\ loggers'[i].end_calls = loggers[i].end_calls
       /\ (calls' # calls /\ last'.op = "write") =>
            /\ raised' = NoException <=> Hashable(last'.data_type)
            /\ (\A i \in DOMAIN loggers : loggers[i].start_calls = 0)
                  => METADATA'.collection_start = Unset
       /\ \A i \in DOMAIN loggers, d \in Dirs, given \in ResetArgs :
              Resets(i, d, given[1], given[2]) => (raised' = NoException <=> d \in dirs)
      ]_vars

\* A write has just been accepted in a session that was started and ended.
C19_Witness ==
    /\ last.op = "write"
    /\ raised = NoException
    /\ stderr # << >>
    /\ \E i \in DOMAIN loggers :
          /\ loggers[i].start_calls = 1 /\ loggers[i].end_calls = 1
          /\ metadata_file[loggers[i].data_dir_path].complete
          /\ metadata_file[loggers[i].data_dir_path].collection_end # Unset

\* C20 (every started session is eventually ended): when thermal_checker.py
\* exits after start() was called, end() has been called and collection_end is
\* set in the metadata file.
C20_StartedSessionEnded ==
    (pc.at = "exit" /\ loggers # << >> /\ loggers[1].start_calls = 1) =>
        /\ loggers[1].end_calls = 1
        /\ metadata_file["logs"].exists
        /\ metadata_file["logs"].collection_end # Unset

====
